---- MODULE Spec2Model ----
(***************************************************************************)
(* A model of the TLS 1.2 server engine of new-tls.py: the record layer,   *)
(* the fixed RSA handshake of TLS._shake_hands, the key schedule of        *)
(* TLS.derive_keys and prf, and the AEAD record protection of              *)
(* TLS._encrypt / TLS._decrypt, followed by TLS.read / TLS.write.          *)
(*                                                                         *)
(* Byte strings are sequences of naturals ("cells").  The lengths the      *)
(* source fixes (512-byte RSA block, 48-byte secrets, 32-byte randoms and  *)
(* digests, 16-byte keys and tags, 8-byte nonces, 4-byte salts) are scaled *)
(* down to a few cells each, and an RSA block is a number written in radix *)
(* RADIX instead of 256; every other layout (the 5-byte record header, the *)
(* 4-byte handshake header, the 13-byte additional data, the offsets 2)    *)
(* is the source's.  HMAC-SHA256, SHA-256 and AES-GCM are library code:    *)
(* they are modelled by a keyed polynomial hash, and by a stream cipher    *)
(* with a polynomial tag, over cells in 0..ByteMod-1.                      *)
(***************************************************************************)
EXTENDS Integers, Sequences, FiniteSets, TLC

(***************************************************************************)
(* Bounds: the scaled lengths, in cells.                                   *)
(***************************************************************************)
\* TLS.KEY_LENGTH, 512 in the source
KEY_LENGTH == 6
\* the length derive_keys asserts for the premaster secret, 48 in the source
PREMASTER_LEN == 2
\* the length of the hello randoms, 32 in the source
RANDOM_LEN == 2
\* the length of a SHA-256 digest, 32 in the source
HASH_LEN == 2
\* the length of the master secret, 48 in the source
MASTER_LEN == 3
\* enc_key_length of derive_keys, 16 in the source
enc_key_length == 1
\* fixed_iv_length of derive_keys, 4 in the source
fixed_iv_length == 1
\* the length of a Finished value, 12 in the source
VERIFY_LEN == 1
\* the length of the explicit nonce, 8 in the source
NONCE_LEN == 1
\* the length of a GCM tag, 16 in the source
TAG_LEN == 1
\* the cells that pass through the cipher are in 0..ByteMod-1 (256 in the source)
ByteMod == 23
\* the sequence numbers a payload is tried under are 0..MaxSeq + 1
MaxSeq == 3
\* prf is called for lengths 0..MaxPrfLen, and compared with the calls for
\* up to MaxPrfMore bytes more
MaxPrfLen == 5
MaxPrfMore == 3

(***************************************************************************)
(* Program constants.                                                      *)
(***************************************************************************)
VERSION == 771
CIPHER_SUITE == 156
CHANGE_CIPHER_SPEC_CONTENT_TYPE == 20
ALERT_CONTENT_TYPE == 21
HANDSHAKE_CONTENT_TYPE == 22
DATA_CONTENT_TYPE == 23
FINISHED_HANDSHAKE_TYPE == 20
PKCS_PREFIX == <<0, 2>>
\* the radix of int.from_bytes / int.to_bytes on the RSA block (256, scaled)
RADIX == 3
\* the private key handed to TLS.__init__: n = 23 * 29, d * 185 = 1 mod 308
priv_key_n == 667
priv_key_d == 5
\* the public exponent of that key, which the peer encrypts with
pub_key_e == 185
\* the certificate chain and the session id handed to TLS.__init__
certs == << <<4, 8>> >>
session_id == <<13, 10>>

(***************************************************************************)
(* Python's bytes operations.                                              *)
(***************************************************************************)
Min(a, b) == IF a < b THEN a ELSE b
Max(a, b) == IF a > b THEN a ELSE b

\* s[a:b] for 0 <= a, 0 <= b
Slice(s, a, b) ==
    LET lo == Min(a, Len(s))
        hi == Min(b, Len(s))
    IN  IF hi <= lo THEN <<>> ELSE SubSeq(s, lo + 1, hi)

\* s[a:] for 0 <= a
SliceFrom(s, a) == Slice(s, a, Len(s))

\* s[-k:] and s[a:-k] for k > 0
SliceLast(s, k) == Slice(s, Max(Len(s) - k, 0), Len(s))
SliceButLast(s, a, k) == Slice(s, a, Max(Len(s) - k, 0))

\* bytes.startswith
StartsWith(s, p) == Slice(s, 0, Len(p)) = p

\* bytes.find(b'\x00', start): the 0-based index of the first 0 at or after
\* start, -1 when there is none
RECURSIVE FindZero(_, _)
FindZero(s, start) ==
    IF start >= Len(s) THEN -1
    ELSE IF s[start + 1] = 0 THEN start
    ELSE FindZero(s, start + 1)

\* n.to_bytes(len, 'big') and struct.pack of one big-endian field
RECURSIVE IntToBytes(_, _, _)
IntToBytes(n, len, radix) ==
    IF len = 0 THEN <<>>
    ELSE Append(IntToBytes(n \div radix, len - 1, radix), n % radix)

\* int.from_bytes(s, 'big') and struct.unpack of one big-endian field
RECURSIVE BytesToInt(_, _)
BytesToInt(s, radix) ==
    IF s = <<>> THEN 0
    ELSE BytesToInt(Slice(s, 0, Len(s) - 1), radix) * radix + s[Len(s)]

Pack(n, len) == IntToBytes(n, len, 256)
Unpack(s) == BytesToInt(s, 256)

\* b''.join
RECURSIVE Join(_)
Join(ss) == IF ss = <<>> THEN <<>> ELSE Head(ss) \o Join(Tail(ss))

(***************************************************************************)
(* Library primitives.                                                     *)
(***************************************************************************)
\* b^k modulo ByteMod
RECURSIVE PowMod(_, _)
PowMod(b, k) ==
    IF k = 0 THEN 1 % ByteMod
    ELSE IF k % 2 = 0
    THEN LET h == PowMod(b, k \div 2) IN (h * h) % ByteMod
    ELSE (b * PowMod(b, k - 1)) % ByteMod

\* the sum over i in lo..hi of (s[i] + 1) * b^(hi - i), modulo ByteMod
RECURSIVE PolySum(_, _, _, _)
PolySum(s, lo, hi, b) ==
    IF hi < lo THEN 0
    ELSE IF hi = lo THEN (s[lo] + 1) % ByteMod
    ELSE LET mid == (lo + hi) \div 2
         IN  (PolySum(s, lo, mid, b) * PowMod(b, hi - mid)
                 + PolySum(s, mid + 1, hi, b)) % ByteMod

\* a polynomial hash of a byte string, to one cell
PolyHash(s, b) == (PowMod(b, Len(s)) + PolySum(s, 1, Len(s), b)) % ByteMod

\* hmac.digest(key, msg, hashlib.sha256)
hmac_sha256(key, msg) ==
    [i \in 1..HASH_LEN |-> PolyHash(<<i, Len(key)>> \o key \o msg, 5)]

\* hashlib.sha256(msg).digest()
sha256(msg) == [i \in 1..HASH_LEN |-> PolyHash(<<i>> \o msg, 7)]

\* pow(base, exp, mod)
RECURSIVE ModExp(_, _, _)
ModExp(base, exp, mod) ==
    IF exp = 0 THEN 1 % mod
    ELSE IF exp % 2 = 0
    THEN LET h == ModExp(base, exp \div 2, mod) IN (h * h) % mod
    ELSE ((base % mod) * ModExp(base, exp - 1, mod)) % mod

\* AES-GCM: the key stream, encryption, decryption and the tag
GCMKeyStream(key, nonce, i) == PolyHash(<<i, Len(key)>> \o key \o nonce, 5)

GCMEncrypt(key, nonce, pt) ==
    [i \in 1..Len(pt) |-> (pt[i] + GCMKeyStream(key, nonce, i)) % ByteMod]

GCMDecrypt(key, nonce, ct) ==
    [i \in 1..Len(ct) |->
        (ct[i] + ByteMod - GCMKeyStream(key, nonce, i)) % ByteMod]

GCMTag(key, nonce, ad, ct) ==
    [i \in 1..TAG_LEN |->
        PolyHash(<<i, Len(key), Len(nonce), Len(ad)>> \o key \o nonce \o ad \o ct, 5)]

(***************************************************************************)
(* prf, to_ad, get_random_bytes.                                           *)
(***************************************************************************)
LABEL_MASTER_SECRET == <<109, 97, 115, 116, 101, 114, 32, 115, 101, 99, 114, 101, 116>>
LABEL_KEY_EXPANSION == <<107, 101, 121, 32, 101, 120, 112, 97, 110, 115, 105, 111, 110>>
LABEL_SERVER_FINISHED ==
    <<115, 101, 114, 118, 101, 114, 32, 102, 105, 110, 105, 115, 104, 101, 100>>
LABEL_CLIENT_FINISHED ==
    <<99, 108, 105, 101, 110, 116, 32, 102, 105, 110, 105, 115, 104, 101, 100>>

\* the while loop of prf
RECURSIVE prf_loop(_, _, _, _, _)
prf_loop(secret, seed, cur_a, result, length) ==
    IF Len(result) >= length THEN result
    ELSE LET a == hmac_sha256(secret, cur_a)
         IN  prf_loop(secret, seed, a, result \o hmac_sha256(secret, a \o seed), length)

\* prf returning all the rounds it generated
prf_untruncated(secret, label, seed, length) ==
    prf_loop(secret, label \o seed, label \o seed, <<>>, length)

prf(secret, label, seed, length) ==
    Slice(prf_loop(secret, label \o seed, label \o seed, <<>>, length), 0, length)

to_ad(seq_num, tls_type, tls_version, tls_len) ==
    Pack(seq_num, 8) \o Pack(tls_type, 1) \o Pack(tls_version, 2) \o Pack(tls_len, 2)

get_random_bytes(length) == [i \in 1..length |-> 65]

(***************************************************************************)
(* The wire formats built by the class, and by the peer.                   *)
(***************************************************************************)
\* the header and payload TLS._write_record hands to socket.send
_write_record(record) ==
    Pack(record.content_type, 1) \o Pack(record.version, 2)
        \o Pack(Len(record.data), 2) \o record.data

\* the header and body TLS._write_handshake_record packs
handshake_payload(record) ==
    Pack(record.handshake_type * 16777216 + Len(record.data), 4) \o record.data

_get_server_hello(server_random_, session_id_) ==
    Join(<< Pack(VERSION, 2),
            server_random_,
            Pack(Len(session_id_), 1),
            session_id_,
            Pack(CIPHER_SUITE, 2) \o Pack(0, 1) \o Pack(0, 2) >>)

int16_to_int24_bytes(n) == <<0>> \o Pack(n, 2)

_get_certificate(certs_) ==
    LET packed_certs ==
            Join([i \in 1..Len(certs_) |->
                     int16_to_int24_bytes(Len(certs_[i])) \o certs_[i]])
    IN  int16_to_int24_bytes(Len(packed_certs)) \o packed_certs

(***************************************************************************)
(* TLS.derive_keys.                                                        *)
(***************************************************************************)
None == [none |-> TRUE]

\* pow(c, d, n).to_bytes(KEY_LENGTH): the decrypted RSA block
rsa_decrypt(encrypted_premaster_secret) ==
    IntToBytes(ModExp(BytesToInt(encrypted_premaster_secret, RADIX),
                      priv_key_d, priv_key_n),
               KEY_LENGTH, RADIX)

\* strip_padding with the separator searched from the start of the block
strip_padding_from_start(block) == SliceFrom(block, FindZero(block, 0) + 1)

\* the premaster secret cut out of a decrypted block
strip_padding(block) == SliceFrom(block, FindZero(block, Len(PKCS_PREFIX)) + 1)

\* key_schedule with the key expansion seeded client random first
key_schedule_same_seed(premaster_secret, client_random_, server_random_) ==
    LET master_secret ==
            prf(premaster_secret, LABEL_MASTER_SECRET,
                client_random_ \o server_random_, MASTER_LEN)
        expanded_key_length == 2 * (enc_key_length + fixed_iv_length)
        key_block ==
            prf(master_secret, LABEL_KEY_EXPANSION,
                client_random_ \o server_random_, expanded_key_length)
    IN  [ master_secret |-> master_secret,
          client_key    |-> Slice(key_block, 0, enc_key_length),
          server_key    |-> Slice(key_block, enc_key_length, 2 * enc_key_length),
          client_salt   |-> Slice(key_block, 2 * enc_key_length,
                                  2 * enc_key_length + fixed_iv_length),
          server_salt   |-> SliceFrom(key_block, 2 * enc_key_length + fixed_iv_length) ]

\* the key schedule: the two prf calls and the split of the key block
key_schedule(premaster_secret, client_random_, server_random_) ==
    LET master_secret ==
            prf(premaster_secret, LABEL_MASTER_SECRET,
                client_random_ \o server_random_, MASTER_LEN)
        expanded_key_length == 2 * (enc_key_length + fixed_iv_length)
        key_block ==
            prf(master_secret, LABEL_KEY_EXPANSION,
                server_random_ \o client_random_, expanded_key_length)
    IN  [ master_secret |-> master_secret,
          client_key    |-> Slice(key_block, 0, enc_key_length),
          server_key    |-> Slice(key_block, enc_key_length, 2 * enc_key_length),
          client_salt   |-> Slice(key_block, 2 * enc_key_length,
                                  2 * enc_key_length + fixed_iv_length),
          server_salt   |-> SliceFrom(key_block, 2 * enc_key_length + fixed_iv_length) ]

\* derive_keys: the failing assertion ("" when none fails), the decrypted
\* block and the session keys
derive_keys(encrypted_premaster_secret, client_random_, server_random_) ==
    IF Len(encrypted_premaster_secret) # KEY_LENGTH
    THEN [err |-> "BadKeyLength", block |-> <<>>, keys |-> None]
    ELSE LET block == rsa_decrypt(encrypted_premaster_secret)
             premaster_secret == strip_padding(block)
         IN  IF ~StartsWith(block, PKCS_PREFIX)
             THEN [err |-> "BadPadding", block |-> block, keys |-> None]
             ELSE IF Len(premaster_secret) # PREMASTER_LEN
             THEN [err |-> "BadSecretLength", block |-> block, keys |-> None]
             ELSE [err |-> "", block |-> block,
                   keys |-> key_schedule(premaster_secret, client_random_,
                                         server_random_)]

(***************************************************************************)
(* TLS._encrypt and TLS._decrypt.                                          *)
(***************************************************************************)
\* seal with the additional data built from the length of the whole payload
seal_payload_length(key, salt, seq_num, data, tls_type) ==
    LET explicit_nonce == get_random_bytes(NONCE_LEN)
        nonce == salt \o explicit_nonce
        ciphertext == GCMEncrypt(key, nonce, data)
        tag == GCMTag(key, nonce,
                      to_ad(seq_num, tls_type, VERSION,
                            NONCE_LEN + Len(data) + TAG_LEN),
                      ciphertext)
    IN  explicit_nonce \o ciphertext \o tag

\* the payload _encrypt returns, under the given key and salt
seal(key, salt, seq_num, data, tls_type) ==
    LET explicit_nonce == get_random_bytes(NONCE_LEN)
        nonce == salt \o explicit_nonce
        ciphertext == GCMEncrypt(key, nonce, data)
        tag == GCMTag(key, nonce, to_ad(seq_num, tls_type, VERSION, Len(data)),
                      ciphertext)
    IN  explicit_nonce \o ciphertext \o tag

\* _encrypt: the payload and the server sequence number it leaves
_encrypt(keys, server_seq_num_, data, tls_type) ==
    [ payload |-> seal(keys.server_key, keys.server_salt, server_seq_num_,
                       data, tls_type),
      server_seq_num |-> server_seq_num_ + 1 ]

\* the slicing, additional data and decrypt_and_verify of _decrypt, under the
\* given key and salt: whether the tag verifies, and the plaintext
open(key, salt, seq_num, data, tls_type, tls_version) ==
    LET nonce == salt \o Slice(data, 0, NONCE_LEN)
        ciphertext == SliceButLast(data, NONCE_LEN, TAG_LEN)
        tag == SliceLast(data, TAG_LEN)
        ad == to_ad(seq_num, tls_type, tls_version, Len(ciphertext))
    IN  [ ok |-> tag = GCMTag(key, nonce, ad, ciphertext),
          plaintext |-> GCMDecrypt(key, nonce, ciphertext) ]

\* _decrypt with the counter raised only when the tag verifies
_decrypt_count_verified(keys, client_seq_num_, data, tls_type, tls_version) ==
    LET r == open(keys.client_key, keys.client_salt, client_seq_num_, data,
                  tls_type, tls_version)
    IN  [ ok |-> r.ok, plaintext |-> r.plaintext,
          client_seq_num |-> IF r.ok THEN client_seq_num_ + 1 ELSE client_seq_num_ ]

\* _decrypt: the outcome of open and the client sequence number it leaves
_decrypt(keys, client_seq_num_, data, tls_type, tls_version) ==
    LET r == open(keys.client_key, keys.client_salt, client_seq_num_, data,
                  tls_type, tls_version)
    IN  [ ok |-> r.ok, plaintext |-> r.plaintext,
          client_seq_num |-> client_seq_num_ + 1 ]

(***************************************************************************)
(* TLS._read_record and TLS._read_handshake_record.                        *)
(* An incoming record is what the two socket.recv calls return: the header *)
(* (5 bytes, or fewer on a short read) and the data.                       *)
(***************************************************************************)
\* _read_record without its assertion
_read_record_unchecked(in, expected_type) ==
    IF Len(in.header) < 5
    THEN [err |-> "StructError", record |-> None]
    ELSE [err |-> "",
          record |-> [content_type |-> Unpack(Slice(in.header, 0, 1)),
                      version |-> Unpack(Slice(in.header, 1, 3)),
                      data |-> Slice(in.data, 0, Unpack(Slice(in.header, 3, 5)))]]

_read_record(in, expected_type) ==
    IF Len(in.header) < 5
    THEN [err |-> "StructError", record |-> None]
    ELSE LET content_type == Unpack(Slice(in.header, 0, 1))
             version == Unpack(Slice(in.header, 1, 3))
             length == Unpack(Slice(in.header, 3, 5))
             data == Slice(in.data, 0, length)
         IN  IF content_type # expected_type
             THEN [err |-> "BadContentType", record |-> None]
             ELSE [err |-> "",
                   record |-> [content_type |-> content_type,
                               version |-> version, data |-> data]]

\* the part of _read_handshake_record after the payload is in plaintext:
\* the log it leaves, and the handshake record or the failure
parse_handshake(log, payload, expected_type) ==
    LET header_size == 4
        header == Unpack(Slice(payload, 0, header_size))
        handshake_type == header \div 16777216
        length == header % 16777216
    IN  IF Len(payload) < header_size
        THEN [err |-> "StructError", handshake_log |-> log \o payload,
              record |-> None]
        ELSE IF handshake_type # expected_type
        THEN [err |-> "BadHandshakeType", handshake_log |-> log \o payload,
              record |-> None]
        ELSE [err |-> "", handshake_log |-> log \o payload,
              record |-> [handshake_type |-> handshake_type,
                          data |-> Slice(payload, header_size,
                                         header_size + length)]]

\* _read_handshake_record: the failure ("" when none), the handshake record,
\* the log and client sequence number it leaves, the decrypts it attempted
_read_handshake_record(keys, client_seq_num_, log, in, expected_type, decrypt) ==
    LET r == _read_record(in, HANDSHAKE_CONTENT_TYPE)
        unchanged == [handshake_log |-> log, client_seq_num |-> client_seq_num_,
                      decrypts |-> 0, record |-> None]
    IN  IF r.err # ""
        THEN [err |-> r.err] @@ unchanged
        ELSE IF ~decrypt
        THEN parse_handshake(log, r.record.data, expected_type)
                 @@ [client_seq_num |-> client_seq_num_, decrypts |-> 0]
        ELSE IF keys = None
        THEN [err |-> "AttributeError"] @@ unchanged
        ELSE LET d == _decrypt(keys, client_seq_num_, r.record.data,
                               HANDSHAKE_CONTENT_TYPE, r.record.version)
             IN  IF ~d.ok
                 THEN [err |-> "MacCheckFailed", handshake_log |-> log,
                       client_seq_num |-> d.client_seq_num, decrypts |-> 1,
                       record |-> None]
                 ELSE parse_handshake(log, d.plaintext, expected_type)
                          @@ [client_seq_num |-> d.client_seq_num, decrypts |-> 1]

\* _write_handshake_record: the record handed to _write_record, and the log
\* and server sequence number it leaves
_write_handshake_record(keys, server_seq_num_, log, record, encrypt) ==
    LET plain == handshake_payload(record)
        e == _encrypt(keys, server_seq_num_, plain, HANDSHAKE_CONTENT_TYPE)
        payload == IF encrypt THEN e.payload ELSE plain
    IN  [ handshake_log |-> log \o payload,
          server_seq_num |-> IF encrypt THEN e.server_seq_num ELSE server_seq_num_,
          plain |-> plain,
          record |-> [content_type |-> HANDSHAKE_CONTENT_TYPE,
                      version |-> VERSION, data |-> payload] ]

\* _get_server_finished computed with the client's label
_get_server_finished_client_label(keys, log) ==
    prf(keys.master_secret, LABEL_CLIENT_FINISHED, sha256(log), VERIFY_LEN)

_get_server_finished(keys, log) ==
    prf(keys.master_secret, LABEL_SERVER_FINISHED, sha256(log), VERIFY_LEN)

(***************************************************************************)
(* What the peer can put on the stream.                                    *)
(***************************************************************************)
\* a record as the peer frames it: the header announces Len(data)
Rec(content_type, version, data) ==
    [ header |-> Pack(content_type, 1) \o Pack(version, 2) \o Pack(Len(data), 2),
      data |-> data ]

\* a handshake message as the peer frames it
HsMsg(handshake_type, body) ==
    handshake_payload([handshake_type |-> handshake_type, data |-> body])

\* a handshake message whose length field announces length
HsMsgLen(handshake_type, length, body) ==
    Pack(handshake_type * 16777216 + length, 4) \o body

\* a payload protected the way the client protects it
ClientSeal(keys, seq_num, data, tls_type, tls_version) ==
    LET explicit_nonce == [i \in 1..NONCE_LEN |-> 1]
        nonce == keys.client_salt \o explicit_nonce
        ciphertext == GCMEncrypt(keys.client_key, nonce, data)
        tag == GCMTag(keys.client_key, nonce,
                      to_ad(seq_num, tls_type, tls_version, Len(data)), ciphertext)
    IN  explicit_nonce \o ciphertext \o tag

\* data with the cell at 1-based position i changed
Tamper(data, i) == [data EXCEPT ![i] = (@ + 1) % ByteMod]

ClientRandoms == { [i \in 1..RANDOM_LEN |-> v] : v \in {17, 18} }

ClientHelloBody(random) == Pack(VERSION, 2) \o random \o <<0>>

ClientHelloInputs(s) ==
    LET hello == ClientHelloBody([i \in 1..RANDOM_LEN |-> 17])
        short == Slice(hello, 0, 2 + RANDOM_LEN - 1)
    IN  { Rec(HANDSHAKE_CONTENT_TYPE, VERSION, HsMsg(1, ClientHelloBody(r))) :
              r \in ClientRandoms }
        \cup
        { \* delivered as an Alert record
          Rec(ALERT_CONTENT_TYPE, VERSION, HsMsg(1, hello)),
          \* another handshake type
          Rec(HANDSHAKE_CONTENT_TYPE, VERSION, HsMsg(16, hello)),
          \* a body too short to hold the random
          Rec(HANDSHAKE_CONTENT_TYPE, VERSION, HsMsg(1, short)),
          \* a length field above, and below, the body's length
          Rec(HANDSHAKE_CONTENT_TYPE, VERSION, HsMsgLen(1, Len(hello) + 3, hello)),
          Rec(HANDSHAKE_CONTENT_TYPE, VERSION, HsMsgLen(1, 2, hello)),
          \* a payload shorter than the handshake header
          Rec(HANDSHAKE_CONTENT_TYPE, VERSION, <<1, 0>>),
          \* a short read of the header
          [header |-> <<HANDSHAKE_CONTENT_TYPE, 3>>, data |-> <<>>],
          \* a short read of the data
          [header |-> Rec(HANDSHAKE_CONTENT_TYPE, VERSION, HsMsg(1, hello)).header,
           data |-> Slice(HsMsg(1, hello), 0, 4 + 2 + 1)] }

ClientKeyExchangeBody(encrypted) == Pack(Len(encrypted), 2) \o encrypted

\* a block padded the PKCS#1 way around secret, and its RSA encryption
PkcsBlock(secret) ==
    PKCS_PREFIX \o [i \in 1..(KEY_LENGTH - 3 - Len(secret)) |-> 1] \o <<0>> \o secret

rsa_encrypt(block) ==
    IntToBytes(ModExp(BytesToInt(block, RADIX), pub_key_e, priv_key_n),
               KEY_LENGTH, RADIX)

\* every ciphertext of KEY_LENGTH cells
AllCiphertexts == [1..KEY_LENGTH -> 0..(RADIX - 1)]

\* the encryptions of two well-formed blocks, of a block with another prefix,
\* of one without separator, and of two whose secret has another length
SomeCiphertexts ==
    { rsa_encrypt(PkcsBlock([i \in 1..PREMASTER_LEN |-> v])) : v \in {1, 2} }
    \cup
    { rsa_encrypt(<<0, 1>> \o [i \in 1..(KEY_LENGTH - 2) |-> 1]),
      rsa_encrypt(PKCS_PREFIX \o [i \in 1..(KEY_LENGTH - 2) |-> 1]),
      rsa_encrypt(PkcsBlock([i \in 1..(PREMASTER_LEN - 1) |-> 2])),
      rsa_encrypt(PkcsBlock([i \in 1..(PREMASTER_LEN + 1) |-> 2])) }

ClientKeyExchangeInputs(ciphertexts) ==
    { Rec(HANDSHAKE_CONTENT_TYPE, VERSION, HsMsg(16, ClientKeyExchangeBody(c))) :
          c \in ciphertexts }
    \cup
    { Rec(HANDSHAKE_CONTENT_TYPE, VERSION,
          HsMsg(16, ClientKeyExchangeBody([i \in 1..(KEY_LENGTH - 1) |-> 1]))),
      Rec(HANDSHAKE_CONTENT_TYPE, VERSION,
          HsMsg(1, ClientKeyExchangeBody([i \in 1..KEY_LENGTH |-> 1]))),
      Rec(DATA_CONTENT_TYPE, VERSION,
          HsMsg(16, ClientKeyExchangeBody([i \in 1..KEY_LENGTH |-> 1]))) }

ChangeCipherSpecInputs(s) ==
    { Rec(CHANGE_CIPHER_SPEC_CONTENT_TYPE, VERSION, <<1>>),
      Rec(CHANGE_CIPHER_SPEC_CONTENT_TYPE, VERSION, <<2>>),
      Rec(HANDSHAKE_CONTENT_TYPE, VERSION, <<1>>),
      [header |-> <<>>, data |-> <<>>] }

\* the value a client computes for its Finished message over the log so far
ClientVerifyData(keys, log) ==
    prf(keys.master_secret, LABEL_CLIENT_FINISHED, sha256(log), VERIFY_LEN)

ClientFinishedInputs(keys, seq_num, log) ==
    IF keys = None THEN { Rec(HANDSHAKE_CONTENT_TYPE, VERSION, <<1, 1, 1>>) }
    ELSE
    LET verify == ClientVerifyData(keys, log)
        good == ClientSeal(keys, seq_num, HsMsg(FINISHED_HANDSHAKE_TYPE, verify),
                           HANDSHAKE_CONTENT_TYPE, VERSION)
    IN  { Rec(HANDSHAKE_CONTENT_TYPE, VERSION, good),
          \* protected under another record version
          Rec(HANDSHAKE_CONTENT_TYPE, 769,
              ClientSeal(keys, seq_num, HsMsg(FINISHED_HANDSHAKE_TYPE, verify),
                         HANDSHAKE_CONTENT_TYPE, 769)),
          \* a Finished value that is not the expected one
          Rec(HANDSHAKE_CONTENT_TYPE, VERSION,
              ClientSeal(keys, seq_num,
                         HsMsg(FINISHED_HANDSHAKE_TYPE, Tamper(verify, 1)),
                         HANDSHAKE_CONTENT_TYPE, VERSION)),
          \* a changed ciphertext cell, a changed tag cell
          Rec(HANDSHAKE_CONTENT_TYPE, VERSION, Tamper(good, NONCE_LEN + 1)),
          Rec(HANDSHAKE_CONTENT_TYPE, VERSION, Tamper(good, Len(good))),
          \* protected under another sequence number
          Rec(HANDSHAKE_CONTENT_TYPE, VERSION,
              ClientSeal(keys, seq_num + 1, HsMsg(FINISHED_HANDSHAKE_TYPE, verify),
                         HANDSHAKE_CONTENT_TYPE, VERSION)),
          \* another handshake type, another content type
          Rec(HANDSHAKE_CONTENT_TYPE, VERSION,
              ClientSeal(keys, seq_num, HsMsg(16, verify),
                         HANDSHAKE_CONTENT_TYPE, VERSION)),
          Rec(DATA_CONTENT_TYPE, VERSION, good),
          \* a payload shorter than nonce and tag
          Rec(HANDSHAKE_CONTENT_TYPE, VERSION, <<1>>) }

\* the requests a client sends: cell 8 stands for "Host:", what follows it
\* for the host up to the end of the line; <<7>> is a request with no Host
AppMessages == { <<7>>, <<8, 9>> }

\* re.search(b'Host:(.*)\r\n', http_request): <<group 1>> of the match, or
\* <<>> when there is none
re_search_host(http_request) ==
    IF Len(http_request) >= 1 /\ http_request[1] = 8
    THEN << SliceFrom(http_request, 1) >>
    ELSE <<>>

\* get_http_response(302, {'Location': f'https://{http_host}:{port}/' + 'a' * times}, '')
\* cell 3 stands for the status line and the fixed headers, cell 1 for 'a'
get_http_response(http_host, times_) ==
    <<3>> \o http_host \o [i \in 1..times_ |-> 1]

ReadInputs(keys, seq_num) ==
    IF keys = None THEN { Rec(DATA_CONTENT_TYPE, VERSION, <<1, 1, 1>>) }
    ELSE
    LET good(m) == ClientSeal(keys, seq_num, m, DATA_CONTENT_TYPE, VERSION)
    IN  { Rec(DATA_CONTENT_TYPE, VERSION, good(m)) : m \in AppMessages }
        \cup
        { Rec(DATA_CONTENT_TYPE, VERSION, Tamper(good(<<7>>), NONCE_LEN + 1)),
          Rec(DATA_CONTENT_TYPE, VERSION, Tamper(good(<<7>>), Len(good(<<7>>)))),
          Rec(DATA_CONTENT_TYPE, VERSION,
              ClientSeal(keys, seq_num + 1, <<7>>, DATA_CONTENT_TYPE, VERSION)),
          Rec(ALERT_CONTENT_TYPE, VERSION, good(<<7>>)),
          [header |-> <<DATA_CONTENT_TYPE>>, data |-> <<>>] }

(***************************************************************************)
(* The state: the fields of each TLS object, the local client_random and   *)
(* the position of _shake_hands, what was handed to socket.send, and what  *)
(* the last call raised or returned.  events, enc_log, decrypts,           *)
(* mac_failed and rsa_block record what has happened.                      *)
(***************************************************************************)
Sessions == {1, 2}

VARIABLES
    main_pc,         \* where the main loop is: "accept", "construct", "read",
                     \* "respond", "close", or "exit" after an uncaught exception
    times,           \* main's count of accepted connections
    parked,          \* where connections run by threads are served: the
                     \* position of each thread that is not the running one
    prf_call,        \* a call of prf: its arguments and, once made, its result
    pc,              \* the step _shake_hands is at, "Established", or "Failed"
    server_random, session_id_of,
    client_seq_num, server_seq_num, handshake_log, session_keys,
    client_random, client_finished,
    sock_out,        \* the byte strings handed to socket.send, in order
    error,           \* what the last call raised, "" when it returned
    read_result,     \* <<payload>> when the last call was a read() that returned
    last_read,       \* <<content type, expected type>> of the header the last
                     \* step read, <<>> when it read none or a short one
    stream_in,       \* <<what the two socket.recv calls of the last step
                     \* returned>>, <<>> when the step read no record
    plain_log,       \* the handshake messages sent and received so far, each
                     \* in plaintext, in order
    events,          \* the handshake's wire events, in order
    enc_log,         \* one entry per _encrypt call
    decrypts,        \* the number of _decrypt calls
    mac_failed,      \* a decrypt_and_verify has failed
    rsa_block        \* the block derive_keys decrypted

vars == << main_pc, times, parked, prf_call, pc, server_random, session_id_of, client_seq_num, server_seq_num,
           handshake_log, session_keys, client_random, client_finished,
           sock_out, error, read_result, last_read, stream_in, plain_log,
           events, enc_log, decrypts, mac_failed, rsa_block >>

\* TLS.__init__ up to the call of _shake_hands
InitSessions ==
    /\ pc = [s \in Sessions |-> "AwaitClientHello"]
    /\ server_random = [s \in Sessions |-> get_random_bytes(RANDOM_LEN)]
    /\ session_id_of = [s \in Sessions |-> session_id]
    /\ client_seq_num = [s \in Sessions |-> 0]
    /\ server_seq_num = [s \in Sessions |-> 0]
    /\ handshake_log = [s \in Sessions |-> <<>>]
    /\ session_keys = [s \in Sessions |-> None]
    /\ client_random = [s \in Sessions |-> <<>>]
    /\ client_finished = [s \in Sessions |-> None]
    /\ sock_out = [s \in Sessions |-> <<>>]
    /\ error = [s \in Sessions |-> ""]
    /\ read_result = [s \in Sessions |-> <<>>]
    /\ last_read = [s \in Sessions |-> <<>>]
    /\ stream_in = [s \in Sessions |-> <<>>]
    /\ plain_log = [s \in Sessions |-> <<>>]
    /\ events = [s \in Sessions |-> <<>>]
    /\ enc_log = [s \in Sessions |-> <<>>]
    /\ decrypts = [s \in Sessions |-> 0]
    /\ mac_failed = [s \in Sessions |-> FALSE]
    /\ rsa_block = [s \in Sessions |-> <<>>]

\* main before its first accept: one thread, no call of prf on its own
Init ==
    /\ main_pc = "accept"
    /\ times = 0
    /\ parked = [s \in Sessions |-> "none"]
    /\ prf_call = None
    /\ InitSessions

SessionVars ==
    << pc, server_random, session_id_of, client_seq_num, server_seq_num,
       handshake_log, session_keys, client_random, client_finished, sock_out,
       error, read_result, last_read, stream_in, plain_log, events, enc_log,
       decrypts, mac_failed, rsa_block >>

\* the constructor returns without having called _shake_hands
Accept_no_handshake(s) ==
    /\ main_pc = "accept"
    /\ s = times + 1
    /\ times' = s
    /\ main_pc' = "read"
    /\ UNCHANGED << parked, prf_call, SessionVars >>

\* client_socket, address = server_socket.accept(); times += 1;
\* tls = TLS(client_socket, priv_key, certs, session_id), up to _shake_hands
Accept(s) ==
    /\ main_pc = "accept"
    /\ s = times + 1
    /\ times' = s
    /\ main_pc' = "construct"
    /\ UNCHANGED << parked, prf_call, SessionVars >>

\* main is running the given call on connection s
Running(s, call) == main_pc = call /\ times = s

\* the exception is swallowed and main goes on to its next call
Raise_and_continue(s, err) ==
    /\ pc' = [pc EXCEPT ![s] = IF @ = "Established" THEN @ ELSE "Failed"]
    /\ error' = [error EXCEPT ![s] = err]
    /\ main_pc' = IF main_pc = "construct" THEN "read" ELSE "respond"
    /\ UNCHANGED << times, parked, prf_call >>

\* an exception leaves the call, and _shake_hands and TLS.__init__ with it
\* when it is raised in the handshake: nothing in main catches it
Raise(s, err) ==
    /\ pc' = [pc EXCEPT ![s] = IF @ = "Established" THEN @ ELSE "Failed"]
    /\ error' = [error EXCEPT ![s] = err]
    /\ main_pc' = "exit"
    /\ UNCHANGED << times, parked, prf_call >>

\* a call of main returns
Return(s, next) ==
    /\ pc' = pc
    /\ error' = [error EXCEPT ![s] = ""]
    /\ main_pc' = next
    /\ UNCHANGED << times, parked, prf_call >>

\* a step of _shake_hands is done; after the last one TLS.__init__ returns
Advance(s, next, event) ==
    /\ pc' = [pc EXCEPT ![s] = next]
    /\ events' = [events EXCEPT ![s] = Append(@, event)]
    /\ error' = error
    /\ main_pc' = IF next = "Established" THEN "read" ELSE main_pc
    /\ UNCHANGED << times, parked, prf_call >>

\* the content type of an incoming record's header, with the expected one
HeaderRead(in, expected_type) ==
    IF Len(in.header) < 5 THEN <<>>
    ELSE << Unpack(Slice(in.header, 0, 1)), expected_type >>

Reads(s, in, expected_type) ==
    /\ last_read' = [last_read EXCEPT ![s] = HeaderRead(in, expected_type)]
    /\ stream_in' = [stream_in EXCEPT ![s] = <<in>>]

ReadsNothing(s) ==
    /\ last_read' = [last_read EXCEPT ![s] = <<>>]
    /\ stream_in' = [stream_in EXCEPT ![s] = <<>>]

\* <<the handshake message a record brought, in plaintext>>, <<>> when the
\* record was no handshake record or did not decrypt
ReceivedHandshake(s, in, decrypt) ==
    LET r == _read_record(in, HANDSHAKE_CONTENT_TYPE)
    IN  IF r.err # "" THEN <<>>
        ELSE IF ~decrypt THEN << r.record.data >>
        ELSE IF session_keys[s] = None THEN <<>>
        ELSE LET d == open(session_keys[s].client_key, session_keys[s].client_salt,
                           client_seq_num[s], r.record.data,
                           HANDSHAKE_CONTENT_TYPE, r.record.version)
             IN  IF d.ok THEN << d.plaintext >> ELSE <<>>

\* a handshake read with the log kept in one attribute of the class
AfterRead_shared_log(s, in, r, decrypt) ==
    /\ Reads(s, in, HANDSHAKE_CONTENT_TYPE)
    /\ plain_log' = [plain_log EXCEPT ![s] = @ \o ReceivedHandshake(s, in, decrypt)]
    /\ handshake_log' = [t \in Sessions |-> r.handshake_log]
    /\ client_seq_num' = [client_seq_num EXCEPT ![s] = r.client_seq_num]
    /\ decrypts' = [decrypts EXCEPT ![s] = @ + r.decrypts]
    /\ mac_failed' = [mac_failed EXCEPT ![s] = @ \/ r.err = "MacCheckFailed"]

\* what a handshake read leaves of the log, the counter and the ghosts
AfterRead(s, in, r, decrypt) ==
    /\ Reads(s, in, HANDSHAKE_CONTENT_TYPE)
    /\ plain_log' = [plain_log EXCEPT ![s] = @ \o ReceivedHandshake(s, in, decrypt)]
    /\ handshake_log' = [handshake_log EXCEPT ![s] = r.handshake_log]
    /\ client_seq_num' = [client_seq_num EXCEPT ![s] = r.client_seq_num]
    /\ decrypts' = [decrypts EXCEPT ![s] = @ + r.decrypts]
    /\ mac_failed' = [mac_failed EXCEPT ![s] = @ \/ r.err = "MacCheckFailed"]

\* the first records the client of connection s may send: any of
\* ClientHelloInputs to main, and to one of two interleaved callers a
\* ClientHello with a random of that client's own, a payload shorter than
\* the handshake header, or an Alert
FirstRecords(s) ==
    IF parked = [t \in Sessions |-> "none"] THEN ClientHelloInputs(s)
    ELSE LET hello == ClientHelloBody([i \in 1..RANDOM_LEN |-> 16 + s])
         IN  { Rec(HANDSHAKE_CONTENT_TYPE, VERSION, HsMsg(1, hello)),
               Rec(HANDSHAKE_CONTENT_TYPE, VERSION, <<1, 0>>),
               Rec(ALERT_CONTENT_TYPE, VERSION, HsMsg(1, hello)) }

\* client_hello = self._read_handshake_record(0x1).data
\* client_random = client_hello[2:2 + 32]
ReadClientHello(s) ==
    /\ Running(s, "construct")
    /\ pc[s] = "AwaitClientHello"
    /\ \E in \in FirstRecords(s) :
         LET r == _read_handshake_record(session_keys[s], client_seq_num[s],
                                         handshake_log[s], in, 1, FALSE)
         IN  /\ AfterRead(s, in, r, FALSE)
             /\ IF r.err # ""
                THEN /\ Raise(s, r.err)
                     /\ UNCHANGED << client_random, events >>
                ELSE /\ client_random' =
                            [client_random EXCEPT ![s] =
                                Slice(r.record.data, 2, 2 + RANDOM_LEN)]
                     /\ Advance(s, "SendServerHello", <<"read", 1>>)
    /\ UNCHANGED << server_random, session_id_of, server_seq_num, session_keys,
                    client_finished, sock_out, read_result, enc_log, rsa_block >>

\* self._write_handshake_record(TLS.HandshakeRecord(type, body))
SendHandshake(s, handshake_type, body, encrypt, next) ==
    LET w == _write_handshake_record(
                 session_keys[s], server_seq_num[s], handshake_log[s],
                 [handshake_type |-> handshake_type, data |-> body], encrypt)
    IN  /\ handshake_log' = [handshake_log EXCEPT ![s] = w.handshake_log]
        /\ server_seq_num' = [server_seq_num EXCEPT ![s] = w.server_seq_num]
        /\ sock_out' = [sock_out EXCEPT ![s] = Append(@, _write_record(w.record))]
        /\ enc_log' = [enc_log EXCEPT ![s] =
                          IF encrypt
                          THEN Append(@, [seq_num |-> server_seq_num[s],
                                          tls_type |-> HANDSHAKE_CONTENT_TYPE,
                                          data |-> w.plain,
                                          payload |-> w.record.data])
                          ELSE @]
        /\ plain_log' = [plain_log EXCEPT ![s] = Append(@, w.plain)]
        /\ ReadsNothing(s)
        /\ Advance(s, next, <<"send", handshake_type>>)
        /\ UNCHANGED << server_random, session_id_of, client_seq_num,
                        session_keys, client_random, client_finished,
                        read_result, decrypts, mac_failed, rsa_block >>

\* SendServerHello followed at once by ServerHelloDone
SendServerHello_no_certificate(s) ==
    /\ Running(s, "construct")
    /\ pc[s] = "SendServerHello"
    /\ SendHandshake(s, 2, _get_server_hello(server_random[s], session_id_of[s]),
                     FALSE, "SendServerHelloDone")

SendServerHello(s) ==
    /\ Running(s, "construct")
    /\ pc[s] = "SendServerHello"
    /\ SendHandshake(s, 2, _get_server_hello(server_random[s], session_id_of[s]),
                     FALSE, "SendCertificate")

SendCertificate(s) ==
    /\ Running(s, "construct")
    /\ pc[s] = "SendCertificate"
    /\ SendHandshake(s, 11, _get_certificate(certs), FALSE, "SendServerHelloDone")

SendServerHelloDone(s) ==
    /\ Running(s, "construct")
    /\ pc[s] = "SendServerHelloDone"
    /\ SendHandshake(s, 14, <<>>, FALSE, "AwaitClientKeyExchange")

\* the derived keys are dropped
StoreKeys_dropped(s, keys) == UNCHANGED session_keys

\* self.session_keys = <the keys derive_keys returned>
StoreKeys(s, keys) == session_keys' = [session_keys EXCEPT ![s] = keys]

\* encrypted_premaster_secret = self._read_handshake_record(0x10).data[2:]
\* self.session_keys = self.derive_keys(encrypted_premaster_secret, client_random)
ReadClientKeyExchange(s, ciphertexts) ==
    /\ Running(s, "construct")
    /\ pc[s] = "AwaitClientKeyExchange"
    /\ \E in \in ClientKeyExchangeInputs(ciphertexts) :
         LET r == _read_handshake_record(session_keys[s], client_seq_num[s],
                                         handshake_log[s], in, 16, FALSE)
             k == derive_keys(SliceFrom(r.record.data, 2), client_random[s],
                              server_random[s])
         IN  /\ AfterRead(s, in, r, FALSE)
             /\ IF r.err # ""
                THEN /\ Raise(s, r.err)
                     /\ UNCHANGED << session_keys, rsa_block, events >>
                ELSE /\ rsa_block' = [rsa_block EXCEPT ![s] = k.block]
                     /\ IF k.err # ""
                        THEN /\ Raise(s, k.err)
                             /\ UNCHANGED << session_keys, events >>
                        ELSE /\ StoreKeys(s, k.keys)
                             /\ Advance(s, "AwaitChangeCipherSpec", <<"read", 16>>)
    /\ UNCHANGED << server_random, session_id_of, server_seq_num, client_random,
                    client_finished, sock_out, read_result, enc_log >>

\* self._read_record(TLS.CHANGE_CIPHER_SPEC_CONTENT_TYPE)
ReadChangeCipherSpec(s) ==
    /\ Running(s, "construct")
    /\ pc[s] = "AwaitChangeCipherSpec"
    /\ \E in \in ChangeCipherSpecInputs(s) :
         LET r == _read_record(in, CHANGE_CIPHER_SPEC_CONTENT_TYPE)
         IN  /\ Reads(s, in, CHANGE_CIPHER_SPEC_CONTENT_TYPE)
             /\ IF r.err # ""
                THEN Raise(s, r.err) /\ UNCHANGED events
                ELSE Advance(s, "AwaitClientFinished", <<"read_ccs", 0>>)
    /\ UNCHANGED << server_random, session_id_of, client_seq_num, server_seq_num,
                    handshake_log, session_keys, client_random, client_finished,
                    sock_out, read_result, plain_log, enc_log, decrypts,
                    mac_failed, rsa_block >>

\* client_finished = self._read_handshake_record(FINISHED_HANDSHAKE_TYPE, decrypt=True)
ReadClientFinished(s) ==
    /\ Running(s, "construct")
    /\ pc[s] = "AwaitClientFinished"
    /\ \E in \in ClientFinishedInputs(session_keys[s], client_seq_num[s],
                                      handshake_log[s]) :
         LET r == _read_handshake_record(session_keys[s], client_seq_num[s],
                                         handshake_log[s], in,
                                         FINISHED_HANDSHAKE_TYPE, TRUE)
         IN  /\ AfterRead(s, in, r, TRUE)
             /\ IF r.err # ""
                THEN /\ Raise(s, r.err)
                     /\ UNCHANGED << client_finished, events >>
                ELSE /\ client_finished' = [client_finished EXCEPT ![s] = r.record]
                     /\ Advance(s, "SendChangeCipherSpec", <<"read", 20>>)
    /\ UNCHANGED << server_random, session_id_of, server_seq_num, session_keys,
                    client_random, sock_out, read_result, enc_log, rsa_block >>

\* self._write_record(TLS.Record(CHANGE_CIPHER_SPEC_CONTENT_TYPE, VERSION, b'\x01'))
SendChangeCipherSpec(s) ==
    /\ Running(s, "construct")
    /\ pc[s] = "SendChangeCipherSpec"
    /\ sock_out' = [sock_out EXCEPT ![s] =
           Append(@, _write_record([content_type |-> CHANGE_CIPHER_SPEC_CONTENT_TYPE,
                                    version |-> VERSION, data |-> <<1>>]))]
    /\ ReadsNothing(s)
    /\ Advance(s, "SendServerFinished", <<"send_ccs", 0>>)
    /\ UNCHANGED << server_random, session_id_of, client_seq_num, server_seq_num,
                    handshake_log, session_keys, client_random, client_finished,
                    read_result, plain_log, enc_log, decrypts, mac_failed,
                    rsa_block >>

\* server_finished = TLS.HandshakeRecord(FINISHED_HANDSHAKE_TYPE, self._get_server_finished())
\* self._write_handshake_record(server_finished, encrypt=True)
SendServerFinished(s) ==
    /\ Running(s, "construct")
    /\ pc[s] = "SendServerFinished"
    /\ SendHandshake(s, FINISHED_HANDSHAKE_TYPE,
                     _get_server_finished(session_keys[s], handshake_log[s]),
                     TRUE, "Established")

\* TLS.read
Read(s) ==
    /\ Running(s, "read")
    /\ \E in \in ReadInputs(session_keys[s], client_seq_num[s]) :
         LET r == _read_record(in, DATA_CONTENT_TYPE)
             d == _decrypt(session_keys[s], client_seq_num[s], r.record.data,
                           DATA_CONTENT_TYPE, r.record.version)
         IN  /\ Reads(s, in, DATA_CONTENT_TYPE)
             /\ IF r.err # "" \/ session_keys[s] = None
                THEN /\ Raise(s, IF r.err # "" THEN r.err ELSE "AttributeError")
                     /\ read_result' = [read_result EXCEPT ![s] = <<>>]
                     /\ UNCHANGED << client_seq_num, decrypts, mac_failed >>
                ELSE /\ client_seq_num' =
                            [client_seq_num EXCEPT ![s] = d.client_seq_num]
                     /\ decrypts' = [decrypts EXCEPT ![s] = @ + 1]
                     /\ mac_failed' = [mac_failed EXCEPT ![s] = @ \/ ~d.ok]
                     /\ IF d.ok
                        THEN /\ read_result' =
                                    [read_result EXCEPT ![s] = <<d.plaintext>>]
                             /\ Return(s, "respond")
                        ELSE /\ read_result' = [read_result EXCEPT ![s] = <<>>]
                             /\ Raise(s, "MacCheckFailed")
    /\ UNCHANGED << server_random, session_id_of, server_seq_num,
                    handshake_log, session_keys, client_random, client_finished,
                    sock_out, plain_log, events, enc_log, rsa_block >>

\* TLS.write appending what it sends to the handshake log
Write_logged(s, msg) ==
    LET e == _encrypt(session_keys[s], server_seq_num[s], msg, DATA_CONTENT_TYPE)
    IN  /\ session_keys[s] # None
        /\ Return(s, "close")
        /\ handshake_log' = [handshake_log EXCEPT ![s] = @ \o e.payload]
        /\ server_seq_num' = [server_seq_num EXCEPT ![s] = e.server_seq_num]
        /\ sock_out' = [sock_out EXCEPT ![s] =
               Append(@, _write_record([content_type |-> DATA_CONTENT_TYPE,
                                        version |-> VERSION,
                                        data |-> e.payload]))]
        /\ enc_log' = [enc_log EXCEPT ![s] =
               Append(@, [seq_num |-> server_seq_num[s],
                          tls_type |-> DATA_CONTENT_TYPE,
                          data |-> msg, payload |-> e.payload])]

\* TLS.write
Write(s, msg) ==
    LET e == _encrypt(session_keys[s], server_seq_num[s], msg, DATA_CONTENT_TYPE)
    IN  IF session_keys[s] = None
        THEN /\ Raise(s, "AttributeError")
             /\ UNCHANGED << server_seq_num, handshake_log, sock_out, enc_log >>
        ELSE /\ Return(s, "close")
             /\ handshake_log' = handshake_log
             /\ server_seq_num' = [server_seq_num EXCEPT ![s] = e.server_seq_num]
             /\ sock_out' = [sock_out EXCEPT ![s] =
                    Append(@, _write_record([content_type |-> DATA_CONTENT_TYPE,
                                             version |-> VERSION,
                                             data |-> e.payload]))]
             /\ enc_log' = [enc_log EXCEPT ![s] =
                    Append(@, [seq_num |-> server_seq_num[s],
                               tls_type |-> DATA_CONTENT_TYPE,
                               data |-> msg, payload |-> e.payload])]

\* http_host = re.search(...).group(1).strip(); headers = {...};
\* tls.write(get_http_response(302, headers, ''))
Respond(s) ==
    /\ Running(s, "respond")
    /\ LET match == IF read_result[s] = <<>> THEN <<>>
                    ELSE re_search_host(read_result[s][1])
       IN  IF match = <<>>
           THEN /\ Raise(s, "NoMatch")
                /\ UNCHANGED << server_seq_num, handshake_log, sock_out, enc_log >>
           ELSE Write(s, get_http_response(match[1], times))
    /\ ReadsNothing(s)
    /\ UNCHANGED << server_random, session_id_of, client_seq_num,
                    session_keys, client_random, client_finished, read_result,
                    plain_log, events, decrypts, mac_failed, rsa_block >>

\* if args.persist: should_serve = False; client_socket.close();
\* server_socket.close(), and the outer loop listens again
Close(s) ==
    /\ Running(s, "close")
    /\ main_pc' = "accept"
    /\ UNCHANGED << times, parked, prf_call, SessionVars >>

Next ==
    \E s \in Sessions :
        \/ Accept(s)
        \/ ReadClientHello(s)
        \/ SendServerHello(s)
        \/ SendCertificate(s)
        \/ SendServerHelloDone(s)
        \/ ReadClientKeyExchange(s, SomeCiphertexts)
        \/ ReadChangeCipherSpec(s)
        \/ ReadClientFinished(s)
        \/ SendChangeCipherSpec(s)
        \/ SendServerFinished(s)
        \/ Read(s)
        \/ Respond(s)
        \/ Close(s)

Spec == Init /\ [][Next]_vars

\* the handshake up to the key exchange, for every ciphertext
NextKeyExchange ==
    \E s \in Sessions :
        \/ Accept(s)
        \/ ReadClientHello(s)
        \/ SendServerHello(s)
        \/ SendCertificate(s)
        \/ SendServerHelloDone(s)
        \/ ReadClientKeyExchange(s, AllCiphertexts)

SpecKeyExchange == Init /\ [][NextKeyExchange]_vars

\* the statement of _shake_hands the interpreter stands at is executed: the
\* position of the connection moves on, to the next statement or, through an
\* exception, to the end
Statement(s) ==
    /\ Running(s, "construct")
    /\ \E p \in { "SendServerHello", "SendCertificate", "SendServerHelloDone",
                  "AwaitClientKeyExchange", "AwaitChangeCipherSpec",
                  "AwaitClientFinished", "SendChangeCipherSpec",
                  "SendServerFinished", "Established", "Failed" } \ {pc[s]} :
         pc' = [pc EXCEPT ![s] = p]

\* the program with a stream that answers: main is the only thread and its
\* socket blocks, so once socket.recv has returned (with bytes or with
\* nothing) the statement it stands at runs to its end
SpecLive == Init /\ [][Next]_vars /\ \A s \in Sessions : WF_pc(Statement(s))

(***************************************************************************)
(* Two callers of TLS(...), each with a connection of its own, whose       *)
(* statements interleave.  main serves one connection at a time; the class *)
(* is what two callers would share.  main_pc and times are the position    *)
(* and the connection of the caller that runs, parked the position of the  *)
(* caller that waits.                                                      *)
(***************************************************************************)

\* both callers stand at tls = TLS(client_socket, priv_key, certs, session_id)
InitThreads ==
    /\ main_pc = "construct"
    /\ times = 1
    /\ parked = [s \in Sessions |-> IF s = 1 THEN "none" ELSE "construct"]
    /\ prf_call = None
    /\ InitSessions

\* the interpreter leaves the caller that runs, between two statements, and
\* resumes the caller of connection s where it stood
Switch(s) ==
    /\ s # times
    /\ parked[s] # "none"
    /\ main_pc' = parked[s]
    /\ times' = s
    /\ parked' = [parked EXCEPT ![s] = "none", ![times] = main_pc]
    /\ UNCHANGED << prf_call, SessionVars >>

NextThreads ==
    \E s \in Sessions :
        \/ Switch(s)
        \/ ReadClientHello(s)
        \/ SendServerHello(s)
        \/ SendCertificate(s)
        \/ SendServerHelloDone(s)
        \/ ReadClientKeyExchange(s, SomeCiphertexts)
        \/ ReadChangeCipherSpec(s)
        \/ ReadClientFinished(s)
        \/ SendChangeCipherSpec(s)
        \/ SendServerFinished(s)
        \/ Read(s)
        \/ Respond(s)

SpecThreads == InitThreads /\ [][NextThreads]_vars

(***************************************************************************)
(* prf on its own: calls with arguments from small sets.                   *)
(***************************************************************************)
PrfSecrets == { <<>>, <<1>>, <<2, 3>> }
PrfLabels == { LABEL_MASTER_SECRET, <<9>> }
PrfSeeds == { <<>>, <<5>>, <<6, 7>> }

PrfCalls ==
    [ secret : PrfSecrets, label : PrfLabels, seed : PrfSeeds,
      length : 0..MaxPrfLen, done : {FALSE}, result : { <<>> } ]

InitPrf ==
    /\ main_pc = "accept"
    /\ times = 0
    /\ parked = [s \in Sessions |-> "none"]
    /\ prf_call \in PrfCalls
    /\ InitSessions

\* prf(secret, label, seed, length) is called and returns
CallPrf ==
    /\ ~prf_call.done
    /\ prf_call' = [prf_call EXCEPT
                       !.done = TRUE,
                       !.result = prf(prf_call.secret, prf_call.label,
                                      prf_call.seed, prf_call.length)]
    /\ UNCHANGED << main_pc, times, parked, SessionVars >>

NextPrf == CallPrf

SpecPrf == InitPrf /\ [][NextPrf]_vars

(***************************************************************************)
(* The claims.                                                             *)
(***************************************************************************)
HandshakeOrder ==
    << <<"read", 1>>, <<"send", 2>>, <<"send", 11>>, <<"send", 14>>,
       <<"read", 16>>, <<"read_ccs", 0>>, <<"read", 20>>, <<"send_ccs", 0>>,
       <<"send", 20>> >>

Steps ==
    << "AwaitClientHello", "SendServerHello", "SendCertificate",
       "SendServerHelloDone", "AwaitClientKeyExchange", "AwaitChangeCipherSpec",
       "AwaitClientFinished", "SendChangeCipherSpec", "SendServerFinished",
       "Established" >>

\* the transcript as it was when the Client Finished arrived, for a session
\* that is Established: the log without the Client Finished message and the
\* protected Server Finished appended after it
TranscriptBeforeClientFinished(s) ==
    Slice(handshake_log[s], 0,
          Len(handshake_log[s]) - Len(enc_log[s][1].payload)
              - 4 - Len(client_finished[s].data))

\* C1: a session is Established only if the body of the Client Finished it
\* received is prf(master_secret, "client finished", SHA256(transcript before
\* the Client Finished), 12): a Client Finished with another body aborts the
\* handshake, so that neither the server's ChangeCipherSpec nor its Finished
\* is sent.
C1_FinishedVerified ==
    \A s \in Sessions :
        pc[s] = "Established" =>
            client_finished[s].data =
                ClientVerifyData(session_keys[s], TranscriptBeforeClientFinished(s))

\* the sends among the wire events
SendsOf(evs) == SelectSeq(evs, LAMBDA e : e[1] \in {"send", "send_ccs"})

\* the i-th byte string handed to socket.send is the record event e says
SentAs(wire, e) ==
    IF e[1] = "send_ccs"
    THEN /\ wire[1] = CHANGE_CIPHER_SPEC_CONTENT_TYPE
         /\ SubSeq(wire, 6, Len(wire)) = <<1>>
    ELSE /\ wire[1] = HANDSHAKE_CONTENT_TYPE
         \* the Server Finished is protected: its type is not on the wire
         /\ e[2] # FINISHED_HANDSHAKE_TYPE => wire[6] = e[2]

\* C2: the wire events of a session's construction are a prefix of: read
\* ClientHello, send ServerHello, send Certificate, send ServerHelloDone, read
\* ClientKeyExchange, read ChangeCipherSpec, read Client Finished, send
\* ChangeCipherSpec, send Server Finished; the step the handshake is at is the
\* one after the events so far, what was handed to the socket is exactly the
\* sends among them, in order, and a session is Established only after all
\* nine.
C2_HandshakeOrder ==
    \A s \in Sessions :
        LET n == Len(events[s])
            sends == SendsOf(events[s])
        IN  /\ n <= Len(HandshakeOrder)
            /\ events[s] = SubSeq(HandshakeOrder, 1, n)
            /\ pc[s] # "Failed" => pc[s] = Steps[n + 1]
            /\ pc[s] = "Established" => events[s] = HandshakeOrder
            /\ Len(sock_out[s]) >= Len(sends)
            /\ pc[s] # "Established" => Len(sock_out[s]) = Len(sends)
            /\ \A i \in 1..Len(sends) : SentAs(sock_out[s][i], sends[i])

C2_Witness ==
    \E s \in Sessions :
        /\ pc[s] = "Established"
        /\ events[s] = HandshakeOrder
        /\ Len(sock_out[s]) = 5

\* everything the model holds of session s
SessionState(s) ==
    << pc[s], client_seq_num[s], server_seq_num[s], handshake_log[s],
       session_keys[s], client_random[s], client_finished[s], sock_out[s],
       error[s], read_result[s], last_read[s], stream_in[s], plain_log[s],
       events[s], enc_log[s], decrypts[s], mac_failed[s], rsa_block[s] >>

\* C3: a step in which tag verification fails raises the authentication
\* error, returns no plaintext and leaves the transcript as it was; and once
\* tag verification has failed in a session, no later step of that session
\* reads, decrypts, encrypts or writes anything.
C3_NothingAfterMacFailure ==
    [][ \A s \in Sessions :
          /\ (mac_failed'[s] /\ ~mac_failed[s]) =>
                 /\ error'[s] = "MacCheckFailed"
                 /\ read_result'[s] = <<>>
                 /\ handshake_log'[s] = handshake_log[s]
          /\ mac_failed[s] => SessionState(s)' = SessionState(s) ]_vars

\* the tag of the request read by read() did not verify
C3_Witness ==
    \E s \in Sessions :
        /\ mac_failed[s]
        /\ error[s] = "MacCheckFailed"
        /\ pc[s] = "Established"
        /\ decrypts[s] = 2
        /\ main_pc = "exit"

\* C4: a session that is not Established (its handshake is still running,
\* or has failed) has read no ApplicationData record, returned no payload
\* from read(), protected no ApplicationData and handed none to the socket,
\* and has decrypted nothing but the Client Finished.
C4_AppDataOnlyWhenEstablished ==
    \A s \in Sessions :
        pc[s] # "Established" =>
            /\ read_result[s] = <<>>
            /\ last_read[s] # <<>> => last_read[s][2] # DATA_CONTENT_TYPE
            /\ \A i \in DOMAIN enc_log[s] : enc_log[s][i].tls_type # DATA_CONTENT_TYPE
            /\ \A i \in DOMAIN sock_out[s] : sock_out[s][i][1] # DATA_CONTENT_TYPE
            /\ decrypts[s] <= 1

C4_Witness ==
    \E s \in Sessions :
        /\ pc[s] = "Established"
        /\ decrypts[s] >= 2
        /\ \E i \in DOMAIN sock_out[s] : sock_out[s][i][1] = DATA_CONTENT_TYPE

\* C5: the client counter is the number of _decrypt calls made so far,
\* whether their tag verified or not, and the server counter is the number
\* of _encrypt calls; the i-th _encrypt ran at sequence number i - 1.  Both
\* are 0 at creation.
C5_SequenceCounters ==
    \A s \in Sessions :
        /\ client_seq_num[s] = decrypts[s]
        /\ server_seq_num[s] = Len(enc_log[s])
        /\ \A i \in DOMAIN enc_log[s] : enc_log[s][i].seq_num = i - 1

C5_Witness ==
    \E s \in Sessions :
        /\ mac_failed[s]
        /\ client_seq_num[s] = 2
        /\ server_seq_num[s] = 1

\* C6: a step that reads a record whose content type is not the expected
\* one raises the content type error and leaves the transcript, both
\* counters, the session keys, what was sent and the wire events as they
\* were; the handshake step does not complete and read() returns nothing.
C6_UnexpectedContentType ==
    [][ \A s \in Sessions :
          (last_read'[s] # <<>> /\ last_read'[s][1] # last_read'[s][2]) =>
              /\ error'[s] = "BadContentType"
              /\ handshake_log'[s] = handshake_log[s]
              /\ client_seq_num'[s] = client_seq_num[s]
              /\ server_seq_num'[s] = server_seq_num[s]
              /\ session_keys'[s] = session_keys[s]
              /\ sock_out'[s] = sock_out[s]
              /\ events'[s] = events[s]
              /\ read_result'[s] = <<>>
              /\ pc'[s] = IF pc[s] = "Established" THEN pc[s] ELSE "Failed" ]_vars

C6_Witness ==
    \E s \in Sessions :
        /\ last_read[s] = <<ALERT_CONTENT_TYPE, HANDSHAKE_CONTENT_TYPE>>
        /\ error[s] = "BadContentType"
        /\ pc[s] = "Failed"
        /\ handshake_log[s] = <<>>

PreKeySteps == { Steps[i] : i \in 1..5 }
PostKeySteps == { Steps[i] : i \in 6..10 }

KeysState(s) ==
    /\ pc[s] \in PreKeySteps => session_keys[s] = None
    /\ pc[s] \in PostKeySteps => session_keys[s] # None
    /\ error[s] \in {"BadKeyLength", "BadPadding", "BadSecretLength"} =>
           session_keys[s] = None
    /\ (decrypts[s] > 0 \/ enc_log[s] # <<>>) => session_keys[s] # None
    /\ error[s] # "AttributeError"

\* C7: the session keys are absent in every step up to and including the
\* wait for the ClientKeyExchange and present in every later step; a failed
\* key exchange leaves them absent; nothing is encrypted or decrypted while
\* they are absent; and once present they never change.
C7_SessionKeys ==
    [][ \A s \in Sessions :
          /\ KeysState(s)
          /\ KeysState(s)'
          /\ session_keys[s] # None => session_keys'[s] = session_keys[s] ]_vars

C7_Witness ==
    \E s \in Sessions :
        /\ pc[s] = "Established"
        /\ session_keys[s] # None
        /\ decrypts[s] >= 2
        /\ Len(enc_log[s]) >= 2

\* the 1-based position of the first 0 at 0-based index 2 or later, 0 if none
FirstSeparator(block) ==
    LET zeros == { i \in 3..Len(block) : block[i] = 0 }
    IN  IF zeros = {} THEN 0
        ELSE CHOOSE i \in zeros : \A j \in zeros : i <= j

\* C8: once a block has been decrypted: if it does not start with 0x00 0x02
\* the key exchange has failed with the padding error; otherwise, if it has
\* no 0x00 at index 2 or later, or what follows the first such 0x00 is not
\* PREMASTER_LEN long, it has failed with the length error; otherwise the
\* keys are those derived from exactly the cells after that first 0x00.  No
\* keys exist in either failure case.
C8_Padding ==
    \A s \in Sessions :
        rsa_block[s] # <<>> =>
            LET b == rsa_block[s]
                z == FirstSeparator(b)
            IN  /\ Len(b) = KEY_LENGTH
                /\ IF b[1] # 0 \/ b[2] # 2
                   THEN /\ error[s] = "BadPadding"
                        /\ pc[s] = "Failed"
                        /\ session_keys[s] = None
                   ELSE IF z = 0 \/ Len(b) - z # PREMASTER_LEN
                   THEN /\ error[s] = "BadSecretLength"
                        /\ pc[s] = "Failed"
                        /\ session_keys[s] = None
                   ELSE /\ pc[s] # "Failed"
                        /\ session_keys[s] # None
                        /\ session_keys[s].master_secret =
                               prf(SubSeq(b, z + 1, Len(b)), LABEL_MASTER_SECRET,
                                   client_random[s] \o server_random[s], MASTER_LEN)

\* a block with the right prefix and no separator at all
C8_Witness ==
    \E s \in Sessions :
        /\ rsa_block[s] # <<>>
        /\ StartsWith(rsa_block[s], PKCS_PREFIX)
        /\ FirstSeparator(rsa_block[s]) = 0
        /\ error[s] = "BadSecretLength"

\* C9: the payload every _encrypt call produces at sequence number n and
\* content type t is accepted by the decrypt of TLS._decrypt run with the
\* same key and salt, n, t and version 0x0303, and yields the plaintext that
\* was encrypted; with any one ciphertext or tag cell changed to any other
\* value, or under any other sequence number, the tag does not verify.
C9_RoundTrip ==
    [][ \A s \in Sessions :
          enc_log'[s] # enc_log[s] =>
              LET e == enc_log'[s][Len(enc_log'[s])]
                  k == session_keys'[s]
                  dec(n, data) == open(k.server_key, k.server_salt, n, data,
                                       e.tls_type, VERSION)
              IN  /\ Len(enc_log'[s]) = Len(enc_log[s]) + 1
                  /\ dec(e.seq_num, e.payload) =
                         [ok |-> TRUE, plaintext |-> e.data]
                  /\ \A i \in (NONCE_LEN + 1)..Len(e.payload) :
                       \A v \in 0..(ByteMod - 1) :
                           v # e.payload[i] =>
                               ~dec(e.seq_num, [e.payload EXCEPT ![i] = v]).ok
                  /\ \A n \in 0..(MaxSeq + 1) :
                       n # e.seq_num => ~dec(n, e.payload).ok ]_vars

C9_Witness ==
    \E s \in Sessions :
        /\ Len(enc_log[s]) >= 2
        /\ enc_log[s][Len(enc_log[s])].tls_type = DATA_CONTENT_TYPE
        /\ enc_log[s][Len(enc_log[s])].seq_num >= 1
        /\ Len(enc_log[s][Len(enc_log[s])].data) >= 2

\* C10: the session keys are: master_secret = prf(premaster, "master
\* secret", client_random || server_random, MASTER_LEN), and the key block
\* prf(master_secret, "key expansion", server_random || client_random,
\* 2 * (enc_key_length + fixed_iv_length)) cut, in order and without overlap
\* or gap, into client key, server key, client salt and server salt; the
\* master secret is MASTER_LEN long, each key enc_key_length and each salt
\* fixed_iv_length, whatever the inputs.
C10_KeySchedule ==
    \A s \in Sessions :
        session_keys[s] # None =>
            LET k == session_keys[s]
                b == rsa_block[s]
                premaster == SubSeq(b, Len(b) - PREMASTER_LEN + 1, Len(b))
                ms == prf(premaster, LABEL_MASTER_SECRET,
                          client_random[s] \o server_random[s], MASTER_LEN)
                kb == prf(ms, LABEL_KEY_EXPANSION,
                          server_random[s] \o client_random[s],
                          2 * (enc_key_length + fixed_iv_length))
                e == enc_key_length
                f == fixed_iv_length
            IN  /\ k.master_secret = ms
                /\ Len(k.master_secret) = MASTER_LEN
                /\ Len(kb) = 2 * (e + f)
                /\ k.client_key = SubSeq(kb, 1, e)
                /\ k.server_key = SubSeq(kb, e + 1, 2 * e)
                /\ k.client_salt = SubSeq(kb, 2 * e + 1, 2 * e + f)
                /\ k.server_salt = SubSeq(kb, 2 * e + f + 1, 2 * e + 2 * f)
                /\ k.client_key \o k.server_key \o k.client_salt \o k.server_salt = kb
                /\ Len(k.client_key) = e /\ Len(k.server_key) = e
                /\ Len(k.client_salt) = f /\ Len(k.server_salt) = f

C10_Witness ==
    \E s \in Sessions :
        /\ session_keys[s] # None
        /\ Len(client_random[s]) = RANDOM_LEN
        /\ Running(s, "construct")
    /\ pc[s] = "AwaitChangeCipherSpec"

\* the nonce the i-th _encrypt call of session s ran under
NonceOf(s, i) ==
    session_keys[s].server_salt \o Slice(enc_log[s][i].payload, 0, NONCE_LEN)

\* C14: within one session no two records protected by _encrypt (the Server
\* Finished and the records of write()) ran under the same nonce
\* server_salt || explicit_nonce.
C14_NoncesDiffer ==
    \A s \in Sessions :
        \A i, j \in DOMAIN enc_log[s] :
            i # j => NonceOf(s, i) # NonceOf(s, j)

\* C15: the transcript is the concatenation, in order, of the handshake
\* messages sent and received so far, each in plaintext (as decrypted when it
\* was received protected, as it was before protection when it was sent
\* protected); a step only ever appends to it, and no ChangeCipherSpec step
\* changes it.
C15_TranscriptPlaintext ==
    [][ \A s \in Sessions :
          /\ handshake_log'[s] = Join(plain_log'[s])
          /\ Len(handshake_log'[s]) >= Len(handshake_log[s])
          /\ Slice(handshake_log'[s], 0, Len(handshake_log[s])) = handshake_log[s]
          /\ pc[s] \in {"AwaitChangeCipherSpec", "SendChangeCipherSpec"} =>
                 handshake_log'[s] = handshake_log[s] ]_vars

\* the handshake types of the messages in a list of plaintext messages
TypesOf(messages) == [i \in DOMAIN messages |-> messages[i][1]]

\* C16: in the step that computes and sends the Server Finished, the
\* transcript hashed is the concatenation, in this order, of the plaintext
\* ClientHello, ServerHello, Certificate, ServerHelloDone, ClientKeyExchange
\* and decrypted Client Finished (the three sent ones as they went on the
\* wire), nothing else, and the message protected is Finished with body
\* prf(master_secret, "server finished", SHA256(that transcript), VERIFY_LEN).
C16_ServerFinished ==
    [][ \A s \in Sessions :
          (enc_log[s] = <<>> /\ enc_log'[s] # <<>>) =>
              LET messages == plain_log[s]
                  transcript == Join(messages)
              IN  /\ TypesOf(messages) = <<1, 2, 11, 14, 16, FINISHED_HANDSHAKE_TYPE>>
                  /\ \A i \in 1..3 :
                       messages[i + 1] = SliceFrom(sock_out[s][i], 5)
                  /\ messages[6] =
                         HsMsg(FINISHED_HANDSHAKE_TYPE, client_finished[s].data)
                  /\ handshake_log[s] = transcript
                  /\ enc_log'[s][1].data =
                         HsMsg(FINISHED_HANDSHAKE_TYPE,
                               prf(session_keys[s].master_secret,
                                   LABEL_SERVER_FINISHED, sha256(transcript),
                                   VERIFY_LEN))
                  /\ enc_log'[s][1].tls_type = HANDSHAKE_CONTENT_TYPE ]_vars

C16_Witness ==
    \E s \in Sessions :
        /\ pc[s] = "Established"
        /\ Len(plain_log[s]) = 7
        /\ plain_log[s][7] = enc_log[s][1].data
        /\ TypesOf(plain_log[s])[7] = FINISHED_HANDSHAKE_TYPE

\* the handshake type _shake_hands expects at each of its handshake reads
ExpectedHandshakeType ==
    [ AwaitClientHello |-> 1, AwaitClientKeyExchange |-> 16,
      AwaitClientFinished |-> FINISHED_HANDSHAKE_TYPE ]

\* the step received, at a handshake read of session s, a handshake message
\* of a type other than the expected one
ReceivedOtherType(s) ==
    /\ pc[s] \in DOMAIN ExpectedHandshakeType
    /\ Len(plain_log'[s]) = Len(plain_log[s]) + 1
    /\ LET message == plain_log'[s][Len(plain_log'[s])]
       IN  /\ Len(message) >= 4
           /\ message[1] # ExpectedHandshakeType[pc[s]]

\* C17: a step that receives a handshake message of another type than the
\* one expected fails with the handshake type error, does not complete, and
\* the message changes nothing: the transcript, the session keys, what was
\* sent and the wire events are as before.
C17_UnexpectedHandshakeType ==
    [][ \A s \in Sessions :
          ReceivedOtherType(s) =>
              /\ error'[s] = "BadHandshakeType"
              /\ pc'[s] = "Failed"
              /\ handshake_log'[s] = handshake_log[s]
              /\ session_keys'[s] = session_keys[s]
              /\ sock_out'[s] = sock_out[s]
              /\ events'[s] = events[s] ]_vars

\* the stream delivered less than was requested of it: a header of fewer
\* than 5 bytes, or a payload shorter than the header's length field
ShortDelivery(in) ==
    \/ Len(in.header) < 5
    \/ Len(in.data) < Unpack(Slice(in.header, 3, 5))

\* C18: a step whose record read is delivered fewer bytes than it requested,
\* for the header or for the payload, fails with the stream error; the step
\* does not complete and the session's transcript, counters and keys are
\* as before and nothing is sent.
C18_ShortRead ==
    [][ \A s \in Sessions :
          (stream_in'[s] # <<>> /\ ShortDelivery(stream_in'[s][1])) =>
              /\ error'[s] = "StructError"
              /\ main_pc' = "exit"
              /\ pc'[s] = IF pc[s] = "Established" THEN pc[s] ELSE "Failed"
              /\ handshake_log'[s] = handshake_log[s]
              /\ client_seq_num'[s] = client_seq_num[s]
              /\ server_seq_num'[s] = server_seq_num[s]
              /\ session_keys'[s] = session_keys[s]
              /\ sock_out'[s] = sock_out[s] ]_vars

\* C19: whenever session keys have been derived, the client random that
\* went into them has exactly RANDOM_LEN bytes, the ones at offset 2 of the
\* ClientHello body, and that body has exactly the length its 24-bit length
\* field announces.
C19_ClientRandom ==
    \A s \in Sessions :
        session_keys[s] # None =>
            LET hello == plain_log[s][1]
                body == SliceFrom(hello, 4)
            IN  /\ Len(client_random[s]) = RANDOM_LEN
                /\ client_random[s] = Slice(body, 2, 2 + RANDOM_LEN)
                /\ Len(body) = Unpack(Slice(hello, 1, 4))

\* C20: a step of an Established session (a read() or a write()) leaves the
\* handshake transcript, the session keys, the server random and the
\* session id as they are; a read() changes neither the server sequence
\* number nor what was sent, and raises the client sequence number by at
\* most 1; a write() leaves the client sequence number as it is and raises
\* the server sequence number by 1.
C20_FrameOfReadWrite ==
    [][ \A s \in Sessions :
          pc[s] = "Established" =>
              /\ handshake_log'[s] = handshake_log[s]
              /\ session_keys'[s] = session_keys[s]
              /\ server_random'[s] = server_random[s]
              /\ session_id_of'[s] = session_id_of[s]
              /\ stream_in'[s] # <<>> =>
                     /\ server_seq_num'[s] = server_seq_num[s]
                     /\ sock_out'[s] = sock_out[s]
                     /\ client_seq_num'[s] \in
                            {client_seq_num[s], client_seq_num[s] + 1}
              /\ sock_out'[s] # sock_out[s] =>
                     /\ client_seq_num'[s] = client_seq_num[s]
                     /\ server_seq_num'[s] = server_seq_num[s] + 1 ]_vars

\* a session after one read() and one write()
C20_Witness ==
    \E s \in Sessions :
        /\ pc[s] = "Established"
        /\ read_result[s] # <<>>
        /\ client_seq_num[s] = 2
        /\ server_seq_num[s] = 2
        /\ handshake_log[s] # <<>>

\* A_0 = label || seed, A_i = HMAC(secret, A_(i-1))
RECURSIVE PrfA(_, _, _)
PrfA(secret, label_seed, i) ==
    IF i = 0 THEN label_seed
    ELSE hmac_sha256(secret, PrfA(secret, label_seed, i - 1))

\* round i: HMAC(secret, A_i || label || seed)
PrfRound(secret, label_seed, i) ==
    hmac_sha256(secret, PrfA(secret, label_seed, i) \o label_seed)

\* the least number of rounds that give at least n bytes
PrfRounds(n) == (n + HASH_LEN - 1) \div HASH_LEN

\* C11: a call prf(secret, label, seed, n) returns, and what it returns has
\* exactly n bytes, is the first n bytes of prf(secret, label, seed, n + k)
\* for every k, and is the first n bytes of round 1, round 2, ... where round
\* i is HMAC(secret, A_i || label || seed), A_0 = label || seed and
\* A_i = HMAC(secret, A_(i-1)).
C11_PrfPrefix ==
    prf_call # None /\ prf_call.done =>
        LET c == prf_call
            label_seed == c.label \o c.seed
            rounds == [i \in 1..PrfRounds(c.length) |->
                          PrfRound(c.secret, label_seed, i)]
        IN  /\ Len(c.result) = c.length
            /\ \A k \in 0..MaxPrfMore :
                 c.result =
                     SubSeq(prf(c.secret, c.label, c.seed, c.length + k),
                            1, c.length)
            /\ c.result = SubSeq(Join(rounds), 1, c.length)

\* a call that needs more than one round and cuts the last one short
C11_Witness ==
    /\ prf_call # None
    /\ prf_call.done
    /\ prf_call.length > HASH_LEN
    /\ prf_call.length % HASH_LEN # 0
    /\ Len(prf_call.result) = prf_call.length

\* a record all of whose announced bytes were delivered, of the given type
WellFramed(in, content_type) ==
    /\ Len(in.header) = 5
    /\ in.header[1] = content_type
    /\ Unpack(Slice(in.header, 3, 5)) = Len(in.data)

\* a handshake message of the given type whose body has the announced length
FramedHandshake(message, handshake_type) ==
    /\ Len(message) >= 4
    /\ message[1] = handshake_type
    /\ Unpack(Slice(message, 1, 4)) = Len(message) - 4

\* a block correctly padded around a premaster secret of PREMASTER_LEN
WellPadded(block) ==
    /\ Len(block) = KEY_LENGTH
    /\ StartsWith(block, PKCS_PREFIX)
    /\ FirstSeparator(block) # 0
    /\ Len(block) - FirstSeparator(block) = PREMASTER_LEN

\* the record is what the claim's client delivers at the read session s is at
DeliveredWell(s, in) ==
    IF pc[s] = "AwaitClientHello"
    THEN /\ WellFramed(in, HANDSHAKE_CONTENT_TYPE)
         /\ FramedHandshake(in.data, 1)
         /\ Len(in.data) - 4 >= 2 + RANDOM_LEN
    ELSE IF pc[s] = "AwaitClientKeyExchange"
    THEN /\ WellFramed(in, HANDSHAKE_CONTENT_TYPE)
         /\ FramedHandshake(in.data, 16)
         /\ Len(in.data) - 6 = KEY_LENGTH
         /\ WellPadded(rsa_decrypt(SliceFrom(in.data, 6)))
    ELSE IF pc[s] = "AwaitChangeCipherSpec"
    THEN WellFramed(in, CHANGE_CIPHER_SPEC_CONTENT_TYPE)
    ELSE /\ WellFramed(in, HANDSHAKE_CONTENT_TYPE)
         /\ LET d == open(session_keys[s].client_key, session_keys[s].client_salt,
                          client_seq_num[s], in.data, HANDSHAKE_CONTENT_TYPE,
                          Unpack(Slice(in.header, 1, 3)))
            IN  d.ok /\ FramedHandshake(d.plaintext, FINISHED_HANDSHAKE_TYPE)

ReadSteps ==
    { "AwaitClientHello", "AwaitClientKeyExchange", "AwaitChangeCipherSpec",
      "AwaitClientFinished" }

\* a handshake read of session s has been answered by the stream
Answered(s) == pc[s] \in ReadSteps /\ stream_in'[s] # <<>>

\* every construction that has begun ends, Established or Failed
C12_ConstructionEnds ==
    \A s \in Sessions :
        Running(s, "construct") ~> pc[s] \in {"Established", "Failed"}

\* C12: a handshake read that is delivered what the claim's client sends (a
\* well-formed ClientHello, a ClientKeyExchange with a correctly padded
\* block, a ChangeCipherSpec record, a correctly protected Client Finished,
\* every requested byte of each) completes its step, and a read that is
\* delivered anything else fails the construction; every construction
\* that has begun eventually is Established or Failed.
C12_EstablishedOrFailed ==
    /\ [][ \A s \in Sessions :
             Answered(s) =>
                 IF DeliveredWell(s, stream_in'[s][1])
                 THEN pc'[s] \notin {pc[s], "Failed"}
                 ELSE pc'[s] = "Failed" ]_vars
    /\ C12_ConstructionEnds

\* the counters, the transcript and the keys of a session
Isolated(s) ==
    << client_seq_num[s], server_seq_num[s], handshake_log[s], session_keys[s] >>

\* C13: with two sessions whose statements interleave, a step of the session
\* that runs leaves the sequence counters, the transcript and the session
\* keys of every other session as they were, and so does a switch from one
\* caller to the other.
C13_SessionsIsolated ==
    [][ \A s \in Sessions :
          (s # times \/ times' # times) => Isolated(s)' = Isolated(s) ]_vars

\* both sessions are in the middle of their handshakes, each with keys and
\* a transcript of its own
C13_Witness ==
    /\ pc[1] = "AwaitClientFinished"
    /\ pc[2] = "AwaitChangeCipherSpec"
    /\ session_keys[1] # None
    /\ session_keys[2] # None
    /\ session_keys[1] # session_keys[2]
    /\ handshake_log[1] # handshake_log[2]
    /\ client_seq_num[1] = 0
====
